---- MODULE Spec2Model ----
(***************************************************************************)
(* The authenticated blogging API of src/server-dev.js (in-memory store)   *)
(* and src/server.js (PostgreSQL store, schema of src/init.sql).           *)
(*                                                                         *)
(* Strings are sequences of one-character strings, so that trim(),         *)
(* notEmpty(), isLength() and normalizeEmail() are computed, not assumed.  *)
(* Time is counted in clock ticks (Date.now()); jsonwebtoken works on      *)
(* whole seconds, Math.floor(Date.now() / 1000).  The model scales the     *)
(* second to TicksPerSec ticks and the '24h' lifetime to ExpiresIn         *)
(* seconds.                                                                *)
(***************************************************************************)
EXTENDS Integers, Sequences, FiniteSets, TLC

VARIABLES
    variant,     \* "dev": server-dev.js is running, "db": server.js is running
    now,         \* the wall clock, in ticks
    users,       \* dataStore.users / table users, in insertion order
    posts,       \* dataStore.posts / table posts, in insertion order
    nextUserId,  \* dataStore.nextUserId / sequence users_id_seq
    nextPostId,  \* dataStore.nextPostId / sequence posts_id_seq
    procs,       \* the requests suspended at an await, one per connection
    resp,        \* the response sent last
    held,        \* the token a client kept from a response, with its arrival time
    deleted      \* history: the post ids whose DELETE was answered 200

vars == <<variant, now, users, posts, nextUserId, nextPostId, procs, resp, held, deleted>>

stores == <<users, posts, nextUserId, nextPostId>>

----------------------------------------------------------------------------
(* Bounds of the model *)

MaxUsers == 2        \* values users_id_seq may hand out
MaxPosts == 2        \* values posts_id_seq may hand out
ExpiresIn == 2       \* token lifetime in seconds (86400 in '24h')

TicksPerSec == 2     \* clock ticks in one second (1000 in Date.now())

MaxNow == ExpiresIn * TicksPerSec + 1

Procs == {"c1", "c2"}

(* Program constants *)

MinPasswordLength == 6
\* init.sql: name and title are VARCHAR(255)
VarcharMax == 255
JWT_SECRET == "your-secret-key"

----------------------------------------------------------------------------
(* Strings *)

SP == " "

RECURSIVE TrimLeft(_)
TrimLeft(s) == IF s # <<>> /\ Head(s) = SP THEN TrimLeft(Tail(s)) ELSE s

RECURSIVE TrimRight(_)
TrimRight(s) ==
    IF s # <<>> /\ s[Len(s)] = SP THEN TrimRight(SubSeq(s, 1, Len(s) - 1)) ELSE s

\* express-validator .trim()
Trim(s) == TrimRight(TrimLeft(s))

\* express-validator .notEmpty(): the raw value is present and not "".
\* An optional body field is a sequence of zero or one strings.
NotEmpty(field) == field # <<>> /\ field[1] # <<>>

\* A sanitizer leaves a missing field missing.
TrimField(field) == IF field = <<>> THEN <<>> ELSE <<Trim(field[1])>>

\* JavaScript truthiness of an optional string: defined and not "".
Truthy(field) == field # <<>> /\ field[1] # <<>>

ToLower(c) == IF c = "A" THEN "a" ELSE IF c = "B" THEN "b" ELSE c

\* express-validator .normalizeEmail(): lower-cases the address
NormalizeEmail(s) == [i \in DOMAIN s |-> ToLower(s[i])]

\* express-validator .isEmail(): one "@" with a local part and a domain
IsEmail(s) ==
    /\ Cardinality({i \in DOMAIN s : s[i] = "@"}) = 1
    /\ s[1] # "@"
    /\ s[Len(s)] # "@"
    /\ \A i \in DOMAIN s : s[i] # SP

\* express-validator .isLength({ min: 6 })
IsLengthMin(s, min) == Len(s) >= min

----------------------------------------------------------------------------
(* bcrypt and jsonwebtoken *)

BcryptHash(password) == [bcrypt |-> password]

BcryptCompare(password, hash) == hash = BcryptHash(password)

HmacSha256(key, payload) == [key |-> key, over |-> payload]

Seconds(t) == t \div TicksPerSec

\* jwt.sign({ id, email }, secret, { expiresIn: '24h' }) at clock t
JwtSign(id, email, t) ==
    LET payload == [id |-> id, email |-> email, iat |-> Seconds(t),
                    exp |-> Seconds(t) + ExpiresIn]
    IN  [payload |-> payload, sig |-> HmacSha256(JWT_SECRET, payload)]

JwtSignatureOk(token) == token.sig = HmacSha256(JWT_SECRET, token.payload)

\* JwtExpired letting the token pass in the second of its exp
JwtExpiredLate(token, t) == Seconds(t) > token.payload.exp

JwtExpired(token, t) == Seconds(t) >= token.payload.exp

\* jwt.verify(token, secret, callback) at clock t: TRUE iff err is null
JwtVerify(token, t) == JwtSignatureOk(token) /\ ~JwtExpired(token, t)

\* authenticateToken: the Authorization header is a sequence of words
BearerToken(header) == IF Len(header) >= 2 THEN <<header[2]>> ELSE <<>>

\* authenticateToken going on to next() when jwt.verify reports an error
authenticateTokenUnverified(header, t) ==
    LET token == BearerToken(header) IN
    IF token = <<>>
    THEN [next |-> FALSE, status |-> 401, error |-> "Access token required", user |-> <<>>]
    ELSE [next |-> TRUE, status |-> 200, error |-> "", user |-> <<token[1].payload>>]

authenticateToken(header, t) ==
    LET token == BearerToken(header) IN
    IF token = <<>>
    THEN [next |-> FALSE, status |-> 401, error |-> "Access token required", user |-> <<>>]
    ELSE IF ~JwtVerify(token[1], t)
    THEN [next |-> FALSE, status |-> 403, error |-> "Invalid or expired token", user |-> <<>>]
    ELSE [next |-> TRUE, status |-> 200, error |-> "", user |-> <<token[1].payload>>]

----------------------------------------------------------------------------
(* Requests, responses and the clients' tokens *)

Idle == [op |-> "idle"]

Response(op, status, error) ==
    [op |-> op, status |-> status, error |-> error, errors |-> {},
     token |-> <<>>, user |-> <<>>, post |-> <<>>, posts |-> <<>>]

ValidationFailed(op, errors) == [Response(op, 400, "") EXCEPT !.errors = errors]

AuthFailed(op, auth) == Response(op, auth.status, auth.error)

InternalError(op) == Response(op, 500, "Internal server error")

\* res.json of a user without its password hash
PublicUser(u) == [id |-> u.id, email |-> u.email, name |-> u.name]

EmailA == <<"a", "@", "x">>
EmailAUpper == <<"A", "@", "x">>
EmailB == <<"b", "@", "x">>
EmailBad == <<"a", "x">>

PwShort == <<"p", "p", "p", "p", "p">>
PwA == <<"p", "p", "p", "p", "p", "p">>
PwB == <<"q", "q", "q", "q", "q", "q">>

\* Tokens signed with JWT_SECRET before this process started, one a second
\* ago and one a lifetime ago: the secret outlives a restart, dataStore and a
\* re-created database do not.
StaleTokens ==
    {JwtSign(MaxUsers, EmailB, 0 - TicksPerSec),
     JwtSign(1, EmailA, 0 - ExpiresIn * TicksPerSec)}

KnownTokens == StaleTokens \cup {held[i].token : i \in DOMAIN held}

\* What a client can make of a token without the secret: another payload
\* under the old signature, or a signature under another key.
Altered(token) ==
    {[token EXCEPT !.payload.id = i] : i \in (1 .. MaxUsers) \ {token.payload.id}}
    \cup {[token EXCEPT !.payload.exp = @ + ExpiresIn]}
    \cup {[token EXCEPT !.sig = HmacSha256("not-the-secret", token.payload)]}

Headers ==
    {<<>>, <<"Bearer">>}
    \cup {<<"Bearer", t>> : t \in KnownTokens}
    \cup {<<"Bearer", t>> : t \in UNION {Altered(k) : k \in KnownTokens}}

\* The client may keep the token of a response or go on with the one it has.
Keep(token) == held' \in {held, <<[token |-> token, at |-> now]>>}

InFlight(op) == Cardinality({p \in Procs : procs[p].op = op})

----------------------------------------------------------------------------
(* POST /api/auth/register *)

RegisterErrors(email, password, name) ==
    (IF IsEmail(email) THEN {} ELSE {"email"})
    \cup (IF IsLengthMin(password, MinPasswordLength) THEN {} ELSE {"password"})
    \cup (IF NotEmpty(<<name>>) THEN {} ELSE {"name"})

\* value too long for type character varying(255)
TooLong(value) == Len(value) > VarcharMax

FindByEmail(email) == {i \in DOMAIN users : users[i].email = email}

FindById(id) == {i \in DOMAIN users : users[i].id = id}

\* The first element the search meets: Array.prototype.find, rows[0]
First(S) == CHOOSE i \in S : \A j \in S : i <= j

RegisterAwaitHash(p, email, password, name) ==
    /\ procs' = [procs EXCEPT ![p] =
                    [op |-> "register", email |-> NormalizeEmail(email),
                     password |-> password, name |-> Trim(name)]]
    /\ UNCHANGED <<resp, held>>

\* the user record and the 201 response built from it
Registered(id, p) ==
    LET r == procs[p]
        newUser == [id |-> id, email |-> r.email, password |-> BcryptHash(r.password),
                    name |-> r.name, created_at |-> now]
        token == JwtSign(newUser.id, newUser.email, now)
    IN  /\ users' = Append(users, newUser)
        /\ resp' = [Response("register", 201, "") EXCEPT
                        !.user = <<PublicUser(newUser)>>, !.token = <<token>>]
        /\ Keep(token)

\* server-dev.js: validation and the search of dataStore.users, up to the
\* await of bcrypt.hash
DevRegister(p, email, password, name) ==
    /\ variant = "dev"
    /\ procs[p].op = "idle"
    /\ nextUserId + InFlight("register") <= MaxUsers
    /\ LET errors == RegisterErrors(email, password, name) IN
       IF errors # {}
       THEN /\ resp' = ValidationFailed("register", errors)
            /\ UNCHANGED <<procs, held>>
       ELSE IF FindByEmail(NormalizeEmail(email)) # {}
       THEN /\ resp' = Response("register", 409, "User already exists")
            /\ UNCHANGED <<procs, held>>
       ELSE RegisterAwaitHash(p, email, password, name)
    /\ UNCHANGED <<variant, now, stores, deleted>>

\* server-dev.js: the continuation after bcrypt.hash
DevRegisterInsert(p) ==
    /\ variant = "dev"
    /\ procs[p].op = "register"
    /\ Registered(nextUserId, p)
    /\ nextUserId' = nextUserId + 1
    /\ procs' = [procs EXCEPT ![p] = Idle]
    /\ UNCHANGED <<variant, now, posts, nextPostId, deleted>>

\* server.js: validation and SELECT id FROM users WHERE email = $1
DbRegister(p, email, password, name) ==
    /\ variant = "db"
    /\ procs[p].op = "idle"
    /\ nextUserId + InFlight("register") <= MaxUsers
    /\ LET errors == RegisterErrors(email, password, name) IN
       IF errors # {}
       THEN /\ resp' = ValidationFailed("register", errors)
            /\ UNCHANGED <<procs, held>>
       ELSE IF FindByEmail(NormalizeEmail(email)) # {}
       THEN /\ resp' = Response("register", 409, "User already exists")
            /\ UNCHANGED <<procs, held>>
       ELSE RegisterAwaitHash(p, email, password, name)
    /\ UNCHANGED <<variant, now, stores, deleted>>

\* server.js: INSERT INTO users after bcrypt.hash.  users.id is SERIAL: the
\* sequence advances before the row is checked.  users.email is UNIQUE: a
\* second row with the email raises, and the catch block answers 500.
\* users.name is VARCHAR(255): a longer name raises as well, before or after
\* the sequence has advanced.
DbRegisterInsert(p) ==
    /\ variant = "db"
    /\ procs[p].op = "register"
    /\ IF TooLong(procs[p].name)
       THEN /\ nextUserId' \in {nextUserId, nextUserId + 1}
            /\ resp' = InternalError("register")
            /\ UNCHANGED <<users, held>>
       ELSE /\ nextUserId' = nextUserId + 1
            /\ IF FindByEmail(procs[p].email) # {}
               THEN /\ resp' = InternalError("register")
                    /\ UNCHANGED <<users, held>>
               ELSE Registered(nextUserId, p)
    /\ procs' = [procs EXCEPT ![p] = Idle]
    /\ UNCHANGED <<variant, now, posts, nextPostId, deleted>>

----------------------------------------------------------------------------
(* POST /api/auth/login *)

LoginErrors(email, password) ==
    (IF IsEmail(email) THEN {} ELSE {"email"})
    \cup (IF NotEmpty(<<password>>) THEN {} ELSE {"password"})

InvalidCredentials == Response("login", 401, "Invalid credentials")

\* LoginLookup answering 404 'User not found' for an email no user has
LoginLookupTellsUnknown(p, email, password) ==
    /\ procs[p].op = "idle"
    /\ LET errors == LoginErrors(email, password)
           found == FindByEmail(NormalizeEmail(email))
       IN  IF errors # {}
           THEN /\ resp' = ValidationFailed("login", errors)
                /\ UNCHANGED procs
           ELSE IF found = {}
           THEN /\ resp' = Response("login", 404, "User not found")
                /\ UNCHANGED procs
           ELSE /\ procs' = [procs EXCEPT ![p] =
                               [op |-> "login", password |-> password,
                                user |-> users[First(found)]]]
                /\ UNCHANGED resp
    /\ UNCHANGED <<variant, now, stores, held, deleted>>

\* validation and the search for the user, up to the await of bcrypt.compare
LoginLookup(p, email, password) ==
    /\ procs[p].op = "idle"
    /\ LET errors == LoginErrors(email, password)
           found == FindByEmail(NormalizeEmail(email))
       IN  IF errors # {}
           THEN /\ resp' = ValidationFailed("login", errors)
                /\ UNCHANGED procs
           ELSE IF found = {}
           THEN /\ resp' = InvalidCredentials
                /\ UNCHANGED procs
           ELSE /\ procs' = [procs EXCEPT ![p] =
                               [op |-> "login", password |-> password,
                                user |-> users[First(found)]]]
                /\ UNCHANGED resp
    /\ UNCHANGED <<variant, now, stores, held, deleted>>

\* the continuation after bcrypt.compare
LoginCompare(p) ==
    /\ procs[p].op = "login"
    /\ LET user == procs[p].user
           token == JwtSign(user.id, user.email, now)
       IN  IF ~BcryptCompare(procs[p].password, user.password)
           THEN /\ resp' = InvalidCredentials
                /\ UNCHANGED held
           ELSE /\ resp' = [Response("login", 200, "") EXCEPT
                               !.user = <<PublicUser(user)>>, !.token = <<token>>]
                /\ Keep(token)
    /\ procs' = [procs EXCEPT ![p] = Idle]
    /\ UNCHANGED <<variant, now, stores, deleted>>

DevLogin(p, email, password) == variant = "dev" /\ LoginLookup(p, email, password)

DevLoginCompare(p) == variant = "dev" /\ LoginCompare(p)

DbLogin(p, email, password) == variant = "db" /\ LoginLookup(p, email, password)

DbLoginCompare(p) == variant = "db" /\ LoginCompare(p)

----------------------------------------------------------------------------
(* GET /api/users/profile *)

Profile(header) ==
    /\ LET auth == authenticateToken(header, now) IN
       IF ~auth.next
       THEN resp' = AuthFailed("profile", auth)
       ELSE LET found == FindById(auth.user[1].id) IN
            IF found = {}
            THEN resp' = Response("profile", 404, "User not found")
            ELSE resp' = [Response("profile", 200, "") EXCEPT
                              !.user = <<PublicUser(users[First(found)])>>]
    /\ UNCHANGED <<variant, now, stores, procs, held, deleted>>

DevProfile(header) == variant = "dev" /\ Profile(header)

DbProfile(header) == variant = "db" /\ Profile(header)

----------------------------------------------------------------------------
(* GET /api/posts *)

Unknown == <<"U", "n", "k", "n", "o", "w", "n">>

\* a row of the listing: of the post, the fields the order and the claims read
Listed(post, author_name) ==
    [id |-> post.id, created_at |-> post.created_at, author_name |-> author_name]

\* Array.prototype.sort((a, b) => new Date(b.created_at) - new Date(a.created_at)):
\* stable, the later created_at first
RECURSIVE InsertByCreatedAt(_, _)
InsertByCreatedAt(sorted, e) ==
    IF sorted = <<>> THEN <<e>>
    ELSE IF Head(sorted).created_at >= e.created_at
    THEN <<Head(sorted)>> \o InsertByCreatedAt(Tail(sorted), e)
    ELSE <<e>> \o sorted

RECURSIVE SortByCreatedAtDesc(_)
SortByCreatedAtDesc(list) ==
    IF list = <<>> THEN <<>>
    ELSE InsertByCreatedAt(SortByCreatedAtDesc(SubSeq(list, 1, Len(list) - 1)),
                           list[Len(list)])

\* server-dev.js: every post, its author looked up in dataStore.users
DevListPosts ==
    /\ variant = "dev"
    /\ LET postsWithAuthors ==
              [i \in DOMAIN posts |->
                  LET author == FindById(posts[i].user_id) IN
                  Listed(posts[i], IF author # {} THEN users[First(author)].name
                                   ELSE Unknown)]
       IN  resp' = [Response("listPosts", 200, "") EXCEPT
                        !.posts = SortByCreatedAtDesc(postsWithAuthors)]
    /\ UNCHANGED <<variant, now, stores, procs, held, deleted>>

\* server.js: posts JOIN users ORDER BY created_at DESC; rows of one
\* created_at come in any order
DbListPosts ==
    /\ variant = "db"
    /\ LET joined == {<<i, j>> \in (DOMAIN posts) \X (DOMAIN users) :
                         posts[i].user_id = users[j].id}
       IN  \E order \in [1 .. Cardinality(joined) -> joined] :
              /\ \A i, j \in DOMAIN order : i < j =>
                    /\ order[i] # order[j]
                    /\ posts[order[i][1]].created_at >= posts[order[j][1]].created_at
              /\ resp' = [Response("listPosts", 200, "") EXCEPT
                             !.posts = [k \in DOMAIN order |->
                                           Listed(posts[order[k][1]],
                                                  users[order[k][2]].name)]]
    /\ UNCHANGED <<variant, now, stores, procs, held, deleted>>

----------------------------------------------------------------------------
(* POST /api/posts *)

PostErrors(title, content) ==
    (IF NotEmpty(title) THEN {} ELSE {"title"})
    \cup (IF NotEmpty(content) THEN {} ELSE {"content"})

NewPost(id, title, content, user_id) ==
    [id |-> id, title |-> Trim(title[1]), content |-> Trim(content[1]),
     user_id |-> user_id, created_at |-> now, updated_at |-> now]

\* of the post a response carries, the model keeps the id
Created(post) ==
    [Response("createPost", 201, "") EXCEPT !.post = <<post.id>>]

\* DevCreatePost numbering the post by the length of the array
DevCreatePostReusingId(header, title, content) ==
    /\ variant = "dev"
    /\ LET auth == authenticateToken(header, now)
           errors == PostErrors(title, content)
       IN  IF ~auth.next
           THEN /\ resp' = AuthFailed("createPost", auth)
                /\ UNCHANGED <<posts, nextPostId>>
           ELSE IF errors # {}
           THEN /\ resp' = ValidationFailed("createPost", errors)
                /\ UNCHANGED <<posts, nextPostId>>
           ELSE LET newPost == NewPost(Len(posts) + 1, title, content, auth.user[1].id) IN
                /\ nextPostId <= MaxPosts
                /\ nextPostId' = nextPostId + 1
                /\ posts' = Append(posts, newPost)
                /\ resp' = Created(newPost)
    /\ UNCHANGED <<variant, now, users, nextUserId, procs, held, deleted>>

DevCreatePost(header, title, content) ==
    /\ variant = "dev"
    /\ LET auth == authenticateToken(header, now)
           errors == PostErrors(title, content)
       IN  IF ~auth.next
           THEN /\ resp' = AuthFailed("createPost", auth)
                /\ UNCHANGED <<posts, nextPostId>>
           ELSE IF errors # {}
           THEN /\ resp' = ValidationFailed("createPost", errors)
                /\ UNCHANGED <<posts, nextPostId>>
           ELSE LET newPost == NewPost(nextPostId, title, content, auth.user[1].id) IN
                /\ nextPostId <= MaxPosts
                /\ nextPostId' = nextPostId + 1
                /\ posts' = Append(posts, newPost)
                /\ resp' = Created(newPost)
    /\ UNCHANGED <<variant, now, users, nextUserId, procs, held, deleted>>

\* posts.id is SERIAL: the sequence advances before the row is checked.
\* posts.user_id REFERENCES users(id): a row of no user raises, and the catch
\* block answers 500.  posts.title is VARCHAR(255): a longer title raises as
\* well, before or after the sequence has advanced.
DbCreatePost(header, title, content) ==
    /\ variant = "db"
    /\ LET auth == authenticateToken(header, now)
           errors == PostErrors(title, content)
       IN  IF ~auth.next
           THEN /\ resp' = AuthFailed("createPost", auth)
                /\ UNCHANGED <<posts, nextPostId>>
           ELSE IF errors # {}
           THEN /\ resp' = ValidationFailed("createPost", errors)
                /\ UNCHANGED <<posts, nextPostId>>
           ELSE LET newPost == NewPost(nextPostId, title, content, auth.user[1].id) IN
                /\ nextPostId <= MaxPosts
                /\ IF TooLong(newPost.title)
                   THEN /\ nextPostId' \in {nextPostId, nextPostId + 1}
                        /\ resp' = InternalError("createPost")
                        /\ UNCHANGED posts
                   ELSE /\ nextPostId' = nextPostId + 1
                        /\ IF FindById(auth.user[1].id) = {}
                           THEN /\ resp' = InternalError("createPost")
                                /\ UNCHANGED posts
                           ELSE /\ posts' = Append(posts, newPost)
                                /\ resp' = Created(newPost)
    /\ UNCHANGED <<variant, now, users, nextUserId, procs, held, deleted>>

----------------------------------------------------------------------------
(* PUT /api/posts/:id *)

FindPost(id) == {i \in DOMAIN posts : posts[i].id = id}

\* Updated writing every field the body has, empty or not
UpdatedWithEmpty(post, title, content) ==
    [post EXCEPT !.title = IF title # <<>> THEN title[1] ELSE @,
                 !.content = IF content # <<>> THEN content[1] ELSE @,
                 !.updated_at = now]

\* if (title) ...; if (content) ...; updated_at = now.  The fields arrive
\* trimmed.
Updated(post, title, content) ==
    [post EXCEPT !.title = IF Truthy(title) THEN title[1] ELSE @,
                 !.content = IF Truthy(content) THEN content[1] ELSE @,
                 !.updated_at = now]

NotFound(op) == Response(op, 404, "Post not found")

Forbidden(op, error) == Response(op, 403, error)

\* DevUpdatePost without the comparison of post.user_id and req.user.id
DevUpdatePostByAnyone(header, id, title, content) ==
    /\ variant = "dev"
    /\ LET auth == authenticateToken(header, now)
           postIndex == FindPost(id)
       IN  IF ~auth.next
           THEN /\ resp' = AuthFailed("updatePost", auth)
                /\ UNCHANGED posts
           ELSE IF postIndex = {}
           THEN /\ resp' = NotFound("updatePost")
                /\ UNCHANGED posts
           ELSE LET post == Updated(posts[First(postIndex)], TrimField(title),
                                    TrimField(content))
                IN  /\ posts' = [posts EXCEPT ![First(postIndex)] = post]
                    /\ resp' = [Response("updatePost", 200, "") EXCEPT !.post = <<post.id>>]
    /\ UNCHANGED <<variant, now, users, nextUserId, nextPostId, procs, held, deleted>>

DevUpdatePost(header, id, title, content) ==
    /\ variant = "dev"
    /\ LET auth == authenticateToken(header, now)
           postIndex == FindPost(id)
       IN  IF ~auth.next
           THEN /\ resp' = AuthFailed("updatePost", auth)
                /\ UNCHANGED posts
           ELSE IF postIndex = {}
           THEN /\ resp' = NotFound("updatePost")
                /\ UNCHANGED posts
           ELSE IF posts[First(postIndex)].user_id # auth.user[1].id
           THEN /\ resp' = Forbidden("updatePost", "Unauthorized to edit this post")
                /\ UNCHANGED posts
           ELSE LET post == Updated(posts[First(postIndex)], TrimField(title),
                                    TrimField(content))
                IN  /\ posts' = [posts EXCEPT ![First(postIndex)] = post]
                    /\ resp' = [Response("updatePost", 200, "") EXCEPT !.post = <<post.id>>]
    /\ UNCHANGED <<variant, now, users, nextUserId, nextPostId, procs, held, deleted>>

\* server.js: authentication and SELECT user_id FROM posts WHERE id = $1
DbUpdatePost(p, header, id, title, content) ==
    /\ variant = "db"
    /\ procs[p].op = "idle"
    /\ LET auth == authenticateToken(header, now)
           postCheck == FindPost(id)
       IN  IF ~auth.next
           THEN /\ resp' = AuthFailed("updatePost", auth)
                /\ UNCHANGED procs
           ELSE IF postCheck = {}
           THEN /\ resp' = NotFound("updatePost")
                /\ UNCHANGED procs
           ELSE IF posts[First(postCheck)].user_id # auth.user[1].id
           THEN /\ resp' = Forbidden("updatePost", "Unauthorized to edit this post")
                /\ UNCHANGED procs
           ELSE /\ procs' = [procs EXCEPT ![p] =
                               [op |-> "updatePost", user |-> auth.user[1].id, id |-> id,
                                title |-> TrimField(title),
                                content |-> TrimField(content)]]
                /\ UNCHANGED resp
    /\ UNCHANGED <<variant, now, stores, held, deleted>>

\* server.js: UPDATE posts SET ... WHERE id = $n RETURNING *; the response
\* carries rows[0], which is undefined when no row has the id.  A title
\* longer than VARCHAR(255) raises when a row is written, and the catch block
\* answers 500.
DbUpdatePostWrite(p) ==
    /\ variant = "db"
    /\ procs[p].op = "updatePost"
    /\ LET rows == FindPost(procs[p].id) IN
       IF rows = {}
       THEN /\ resp' = Response("updatePost", 200, "")
            /\ UNCHANGED posts
       ELSE IF Truthy(procs[p].title) /\ TooLong(procs[p].title[1])
       THEN /\ resp' = InternalError("updatePost")
            /\ UNCHANGED posts
       ELSE LET post == Updated(posts[First(rows)], procs[p].title, procs[p].content)
            IN  /\ posts' = [posts EXCEPT ![First(rows)] = post]
                /\ resp' = [Response("updatePost", 200, "") EXCEPT !.post = <<post.id>>]
    /\ procs' = [procs EXCEPT ![p] = Idle]
    /\ UNCHANGED <<variant, now, users, nextUserId, nextPostId, held, deleted>>

----------------------------------------------------------------------------
(* DELETE /api/posts/:id *)

\* Array.prototype.splice(index, 1)
Splice(list, i) == SubSeq(list, 1, i - 1) \o SubSeq(list, i + 1, Len(list))

DevDeletePost(header, id) ==
    /\ variant = "dev"
    /\ LET auth == authenticateToken(header, now)
           postIndex == FindPost(id)
       IN  IF ~auth.next
           THEN /\ resp' = AuthFailed("deletePost", auth)
                /\ UNCHANGED <<posts, deleted>>
           ELSE IF postIndex = {}
           THEN /\ resp' = NotFound("deletePost")
                /\ UNCHANGED <<posts, deleted>>
           ELSE IF posts[First(postIndex)].user_id # auth.user[1].id
           THEN /\ resp' = Forbidden("deletePost", "Unauthorized to delete this post")
                /\ UNCHANGED <<posts, deleted>>
           ELSE /\ posts' = Splice(posts, First(postIndex))
                /\ resp' = Response("deletePost", 200, "")
                /\ deleted' = deleted \cup {id}
    /\ UNCHANGED <<variant, now, users, nextUserId, nextPostId, procs, held>>

\* server.js: authentication and SELECT user_id FROM posts WHERE id = $1
DbDeletePost(p, header, id) ==
    /\ variant = "db"
    /\ procs[p].op = "idle"
    /\ LET auth == authenticateToken(header, now)
           postCheck == FindPost(id)
       IN  IF ~auth.next
           THEN /\ resp' = AuthFailed("deletePost", auth)
                /\ UNCHANGED procs
           ELSE IF postCheck = {}
           THEN /\ resp' = NotFound("deletePost")
                /\ UNCHANGED procs
           ELSE IF posts[First(postCheck)].user_id # auth.user[1].id
           THEN /\ resp' = Forbidden("deletePost", "Unauthorized to delete this post")
                /\ UNCHANGED procs
           ELSE /\ procs' = [procs EXCEPT ![p] =
                               [op |-> "deletePost", user |-> auth.user[1].id, id |-> id]]
                /\ UNCHANGED resp
    /\ UNCHANGED <<variant, now, stores, held, deleted>>

\* server.js: DELETE FROM posts WHERE id = $1
DbDeletePostWrite(p) ==
    /\ variant = "db"
    /\ procs[p].op = "deletePost"
    /\ posts' = SelectSeq(posts, LAMBDA post : post.id # procs[p].id)
    /\ resp' = Response("deletePost", 200, "")
    /\ deleted' = deleted \cup {procs[p].id}
    /\ procs' = [procs EXCEPT ![p] = Idle]
    /\ UNCHANGED <<variant, now, users, nextUserId, nextPostId, held>>

----------------------------------------------------------------------------
(* The clock *)

Tick ==
    /\ now < MaxNow
    /\ now' = now + 1
    /\ UNCHANGED <<variant, stores, procs, resp, held, deleted>>

----------------------------------------------------------------------------
(* The server after start-up, and the requests of the accounts scenario *)

Init ==
    /\ variant \in {"dev", "db"}
    /\ now = 0
    /\ users = <<>>
    /\ posts = <<>>
    /\ nextUserId = 1
    /\ nextPostId = 1
    /\ procs = [p \in Procs |-> Idle]
    /\ resp = Response("none", 0, "")
    /\ held = <<>>
    /\ deleted = {}

\* The accounts scenario: registrations and logins arriving within one
\* clock tick, over every kind of email, password and name.
Emails == {EmailA, EmailAUpper, EmailB, EmailBad}
RegisterPasswords == {PwShort, PwA}
LoginPasswords == {<<>>, PwA, PwB}
Names == {<<>>, <<SP>>, <<SP, "n">>}

NextAuth ==
    \/ \E p \in Procs, e \in Emails, pw \in RegisterPasswords, n \in Names :
          DevRegister(p, e, pw, n)
    \/ \E p \in Procs : DevRegisterInsert(p)
    \/ \E p \in Procs, e \in Emails, pw \in RegisterPasswords, n \in Names :
          DbRegister(p, e, pw, n)
    \/ \E p \in Procs : DbRegisterInsert(p)
    \/ \E p \in Procs, e \in Emails, pw \in LoginPasswords : DevLogin(p, e, pw)
    \/ \E p \in Procs : DevLoginCompare(p)
    \/ \E p \in Procs, e \in Emails, pw \in LoginPasswords : DbLogin(p, e, pw)
    \/ \E p \in Procs : DbLoginCompare(p)
    \/ \E h \in Headers : DevProfile(h)
    \/ \E h \in Headers : DbProfile(h)

SpecAuth == Init /\ [][NextAuth]_vars

\* The posts scenario: one account registers, and posts are created, edited,
\* deleted and listed within one clock tick, by the account and by the holders
\* of tokens that are older than the store.
PostsHeaders ==
    {<<"Bearer", t>> : t \in {k \in KnownTokens : JwtVerify(k, now)}}

CreateTitles == {<<>>, <<<<SP>>>>, <<<<"a">>>>}
CreateContents == {<<<<>>>>, <<<<SP, "c">>>>}
UpdateBodies ==
    {[title |-> <<<<SP>>>>, content |-> <<<<"d">>>>],
     [title |-> <<<<SP, "b">>>>, content |-> <<>>]}
PostIds == 1 .. MaxPosts

NextPosts ==
    \/ \E p \in Procs : DevRegister(p, EmailA, PwA, <<"n">>)
    \/ \E p \in Procs : DevRegisterInsert(p)
    \/ \E p \in Procs : DbRegister(p, EmailA, PwA, <<"n">>)
    \/ \E p \in Procs : DbRegisterInsert(p)
    \/ DevListPosts
    \/ DbListPosts
    \/ \E h \in PostsHeaders, t \in CreateTitles, c \in CreateContents :
          DevCreatePost(h, t, c)
    \/ \E h \in PostsHeaders, t \in CreateTitles, c \in CreateContents :
          DbCreatePost(h, t, c)
    \/ \E h \in PostsHeaders, i \in PostIds, b \in UpdateBodies :
          DevUpdatePost(h, i, b.title, b.content)
    \/ \E p \in Procs, h \in PostsHeaders, i \in PostIds, b \in UpdateBodies :
          DbUpdatePost(p, h, i, b.title, b.content)
    \/ \E p \in Procs : DbUpdatePostWrite(p)
    \/ \E h \in PostsHeaders, i \in PostIds : DevDeletePost(h, i)
    \/ \E p \in Procs, h \in PostsHeaders, i \in PostIds : DbDeletePost(p, h, i)
    \/ \E p \in Procs : DbDeletePostWrite(p)

SpecPosts == Init /\ [][NextPosts]_vars

\* The gate scenario: the protected endpoints called with no token, with
\* tokens that verify and with tokens that do not.
GateBody == [title |-> <<<<"a">>>>, content |-> <<<<"c">>>>]

NextGate ==
    \/ \E p \in Procs : DevRegister(p, EmailA, PwA, <<"n">>)
    \/ \E p \in Procs : DevRegisterInsert(p)
    \/ \E p \in Procs : DbRegister(p, EmailA, PwA, <<"n">>)
    \/ \E p \in Procs : DbRegisterInsert(p)
    \/ \E h \in Headers : DevProfile(h)
    \/ \E h \in Headers : DbProfile(h)
    \/ \E h \in Headers : DevCreatePost(h, GateBody.title, GateBody.content)
    \/ \E h \in Headers : DbCreatePost(h, GateBody.title, GateBody.content)
    \/ \E h \in Headers, i \in PostIds : DevUpdatePost(h, i, GateBody.title, <<>>)
    \/ \E p \in Procs, h \in Headers, i \in PostIds :
          DbUpdatePost(p, h, i, GateBody.title, <<>>)
    \/ \E p \in Procs : DbUpdatePostWrite(p)
    \/ \E h \in Headers, i \in PostIds : DevDeletePost(h, i)
    \/ \E p \in Procs, h \in Headers, i \in PostIds : DbDeletePost(p, h, i)
    \/ \E p \in Procs : DbDeletePostWrite(p)

SpecGate == Init /\ [][NextGate]_vars

\* The editing scenario: the first post, edited over every kind of title and
\* content while the clock advances.
EditMaxNow == 1

EditTitles == {<<>>, <<<<SP>>>>, <<<<SP, "b">>>>}
EditContents == {<<>>, <<<<>>>>, <<<<"d", SP>>>>}

NextEdit ==
    \/ now < EditMaxNow /\ Tick
    \/ \E p \in Procs : DevRegister(p, EmailA, PwA, <<"n">>)
    \/ \E p \in Procs : DevRegisterInsert(p)
    \/ \E p \in Procs : DbRegister(p, EmailA, PwA, <<"n">>)
    \/ \E p \in Procs : DbRegisterInsert(p)
    \/ \E h \in PostsHeaders :
          nextPostId = 1 /\ DevCreatePost(h, GateBody.title, GateBody.content)
    \/ \E h \in PostsHeaders :
          nextPostId = 1 /\ DbCreatePost(h, GateBody.title, GateBody.content)
    \/ \E h \in PostsHeaders, i \in PostIds, t \in EditTitles, c \in EditContents :
          DevUpdatePost(h, i, t, c)
    \/ \E p \in Procs, h \in PostsHeaders, i \in PostIds, t \in EditTitles,
          c \in EditContents : DbUpdatePost(p, h, i, t, c)
    \/ \E p \in Procs : DbUpdatePostWrite(p)

SpecEdit == Init /\ [][NextEdit]_vars

\* The token scenario: one account registers and logs in, and presents the
\* token it kept, as it is and altered, while the clock advances past its
\* lifetime.
TokenHeaders ==
    {<<>>}
    \cup {<<"Bearer", held[i].token>> : i \in DOMAIN held}
    \cup {<<"Bearer", t>> : t \in UNION {Altered(held[i].token) : i \in DOMAIN held}}

NextToken ==
    \/ Tick
    \/ \E p \in Procs : DevRegister(p, EmailA, PwA, <<"n">>)
    \/ \E p \in Procs : DevRegisterInsert(p)
    \/ \E p \in Procs : DbRegister(p, EmailA, PwA, <<"n">>)
    \/ \E p \in Procs : DbRegisterInsert(p)
    \/ \E p \in Procs : DevLogin(p, EmailAUpper, PwA)
    \/ \E p \in Procs : DevLoginCompare(p)
    \/ \E p \in Procs : DbLogin(p, EmailAUpper, PwA)
    \/ \E p \in Procs : DbLoginCompare(p)
    \/ \E h \in TokenHeaders : DevProfile(h)
    \/ \E h \in TokenHeaders : DbProfile(h)

SpecToken == Init /\ [][NextToken]_vars

----------------------------------------------------------------------------
(* Registration *)

NoDuplicateEmail ==
    \A i, j \in DOMAIN users : users[i].email = users[j].email => i = j

\* C1: of the register requests carrying one normalized email, under every
\* interleaving of their steps, one is answered 201 and every other one 409
\* (a valid request is answered nothing else), and the user store never holds
\* two users with the same email.
C1_OneSuccessThenConflict ==
    /\ NoDuplicateEmail
    /\ resp.op = "register" /\ resp.errors = {} => resp.status \in {201, 409}

\* C7: a register request whose password is shorter than 6 is answered 400 and
\* creates no user; a request with a password of 6 or more, a well-formed email
\* and a name that is not empty after trimming, checked when no user has its
\* normalized email, is answered 201 and stores exactly one new user.
C7_RegisterValidation ==
    [][ /\ \A p \in Procs, e \in Emails, pw \in RegisterPasswords, n \in Names :
              (DevRegister(p, e, pw, n) \/ DbRegister(p, e, pw, n)) =>
                 /\ Len(pw) < 6 =>
                       /\ resp'.status = 400
                       /\ "password" \in resp'.errors
                       /\ UNCHANGED <<stores, procs>>
                 /\ /\ Len(pw) >= 6
                    /\ IsEmail(e)
                    /\ Trim(n) # <<>>
                    /\ FindByEmail(NormalizeEmail(e)) = {}
                    => procs'[p].op = "register"
        /\ \A p \in Procs :
              procs[p].op = "register" /\ procs[p].name # <<>> /\ procs'[p].op = "idle" =>
                 /\ resp'.op = "register"
                 /\ resp'.status = 201
                 /\ Len(users') = Len(users) + 1
                 /\ SubSeq(users', 1, Len(users)) = users
                 /\ users'[Len(users')].email = procs[p].email
      ]_vars

----------------------------------------------------------------------------
(* Login *)

\* C8: a login with a well-formed email and a password is answered the same
\* when the email is not registered and when it is registered with another
\* password: 401 with the body 'Invalid credentials', no token and no user in
\* the response, and the stores as they were.
C8_LoginDoesNotTellUnknownFromWrong ==
    [][ \A p \in Procs :
           \/ /\ procs[p].op = "login"
              /\ DevLoginCompare(p) \/ DbLoginCompare(p)
              /\ ~BcryptCompare(procs[p].password, procs[p].user.password)
           \/ \E e \in Emails, pw \in LoginPasswords :
                 /\ DevLogin(p, e, pw) \/ DbLogin(p, e, pw)
                 /\ LoginErrors(e, pw) = {}
                 /\ FindByEmail(NormalizeEmail(e)) = {}
           => /\ resp' = [op |-> "login", status |-> 401,
                          error |-> "Invalid credentials", errors |-> {},
                          token |-> <<>>, user |-> <<>>, post |-> <<>>,
                          posts |-> <<>>]
              /\ UNCHANGED <<stores, held>>
      ]_vars

\* a wrong-password login waits for bcrypt.compare while the response sent
\* last is the 401 of a login for an email no user has
C8_Witness ==
    /\ resp.op = "login" /\ resp.status = 401
    /\ \E p \in Procs :
          /\ procs[p].op = "login"
          /\ ~BcryptCompare(procs[p].password, procs[p].user.password)
          /\ \A q \in Procs \ {p} : procs[q].op = "idle"
    /\ \E e \in Emails : IsEmail(e) /\ FindByEmail(NormalizeEmail(e)) = {}

----------------------------------------------------------------------------
(* Posts *)

TokenId(header) == BearerToken(header)[1].payload.id

Owner(id) == posts[First(FindPost(id))].user_id

\* C2: an update or a delete of an existing post by an authenticated actor
\* whose id is not the owner's is answered 403 and leaves the post store as it
\* was; and a post changes or goes only in the write of a request whose token
\* id is the post's owner id.
C2_OnlyTheOwnerWrites ==
    [][ /\ \A h \in PostsHeaders, i \in PostIds :
              /\ FindPost(i) # {}
              /\ TokenId(h) # Owner(i)
              /\ \/ DevDeletePost(h, i)
                 \/ \E p \in Procs : DbDeletePost(p, h, i)
                 \/ \E b \in UpdateBodies :
                       \/ DevUpdatePost(h, i, b.title, b.content)
                       \/ \E p \in Procs : DbUpdatePost(p, h, i, b.title, b.content)
              => /\ resp'.status = 403
                 /\ resp'.op \in {"updatePost", "deletePost"}
                 /\ UNCHANGED <<posts, procs, deleted>>
        /\ \A k \in DOMAIN posts :
              (\A j \in DOMAIN posts' : posts'[j] # posts[k]) =>
                 \/ \E h \in PostsHeaders :
                       /\ TokenId(h) = posts[k].user_id
                       /\ \/ DevDeletePost(h, posts[k].id)
                          \/ \E b \in UpdateBodies :
                                DevUpdatePost(h, posts[k].id, b.title, b.content)
                 \/ \E p \in Procs :
                       /\ procs[p].op \in {"updatePost", "deletePost"}
                       /\ procs[p].id = posts[k].id
                       /\ procs[p].user = posts[k].user_id
                       /\ DbUpdatePostWrite(p) \/ DbDeletePostWrite(p)
      ]_vars

\* an edit of a post was refused with 403 while the post is stored
C2_Witness ==
    /\ resp.op = "updatePost"
    /\ resp.status = 403
    /\ resp.error = "Unauthorized to edit this post"
    /\ posts # <<>>

\* C6: a createPost whose title or content is empty after trimming is answered
\* 400 and adds no post, and every stored post has a title and a content that
\* are not empty.
C6_NoEmptyTitleOrContent ==
    [][ /\ \A h \in PostsHeaders, t \in CreateTitles, c \in CreateContents :
              /\ DevCreatePost(h, t, c) \/ DbCreatePost(h, t, c)
              /\ TrimField(t) \in {<<>>, <<<<>>>>} \/ TrimField(c) \in {<<>>, <<<<>>>>}
              => resp'.status = 400 /\ UNCHANGED posts
        /\ \A k \in DOMAIN posts' :
              posts'[k].title # <<>> /\ posts'[k].content # <<>>
      ]_vars

\* C9: once the delete of a post was answered 200, no post of that id is stored
\* or listed again: the ids handed out only grow.
C9_DeletionIsPermanent ==
    /\ \A k \in DOMAIN posts : posts[k].id \notin deleted /\ posts[k].id < nextPostId
    /\ \A j, k \in DOMAIN posts : posts[j].id = posts[k].id => j = k
    /\ resp.op = "listPosts" =>
          \A k \in DOMAIN resp.posts : resp.posts[k].id \notin deleted

\* a listing, after a deletion, of a post created later
C9_Witness ==
    /\ resp.op = "listPosts"
    /\ resp.posts # <<>>
    /\ deleted # {}
    /\ \A k \in DOMAIN resp.posts : \E d \in deleted : d < resp.posts[k].id

\* C10: the owner id of every stored post is the id of a stored user.
C10_OwnerIsAUser ==
    \A k \in DOMAIN posts : FindById(posts[k].user_id) # {}

----------------------------------------------------------------------------
(* The gate *)

Protected(h) ==
    \/ DevProfile(h) \/ DbProfile(h)
    \/ DevCreatePost(h, GateBody.title, GateBody.content)
    \/ DbCreatePost(h, GateBody.title, GateBody.content)
    \/ \E i \in PostIds :
          \/ DevUpdatePost(h, i, GateBody.title, <<>>)
          \/ DevDeletePost(h, i)
          \/ \E p \in Procs :
                \/ DbUpdatePost(p, h, i, GateBody.title, <<>>)
                \/ DbDeletePost(p, h, i)

\* C4: a request to a protected endpoint without a bearer token is answered
\* 401, one whose token fails the signature or the expiry check is answered
\* 403, and in both cases no handler runs: the stores are as they were and no
\* request is left waiting for a write.
C4_GateBeforeHandler ==
    [][ \A h \in Headers :
           /\ BearerToken(h) = <<>> =>
                 \/ /\ resp'.status = 401
                    /\ resp'.error = "Access token required"
                    /\ UNCHANGED <<stores, procs, deleted>>
                 \/ ~Protected(h)
           /\ /\ BearerToken(h) # <<>>
              /\ \/ h[2].sig # HmacSha256(JWT_SECRET, h[2].payload)
                 \/ Seconds(now) >= h[2].payload.exp
              => \/ /\ resp'.status = 403
                    /\ resp'.error = "Invalid or expired token"
                    /\ UNCHANGED <<stores, procs, deleted>>
                 \/ ~Protected(h)
      ]_vars

\* the delete of a stored post was refused for its token
C4_Witness ==
    /\ resp.op = "deletePost"
    /\ resp.status = 403
    /\ resp.error = "Invalid or expired token"
    /\ posts # <<>>

----------------------------------------------------------------------------
(* Editing *)

\* what the claim says of one edit: title and content are the supplied ones
\* where they are not empty after trimming, updated_at is the clock and is not
\* less than before, and the rest of the post is as it was
Edited(old, new, title, content) ==
    /\ new.updated_at >= old.updated_at
    /\ new.updated_at = now
    /\ new.title = IF title # <<>> /\ Trim(title[1]) # <<>>
                   THEN Trim(title[1]) ELSE old.title
    /\ new.content = IF content # <<>> /\ Trim(content[1]) # <<>>
                     THEN Trim(content[1]) ELSE old.content
    /\ new.id = old.id
    /\ new.user_id = old.user_id
    /\ new.created_at = old.created_at

\* C5: an updatePost answered 200 leaves the post with an updated_at not less
\* than before, the supplied title where one was supplied and is not empty
\* after trimming and the previous title otherwise, the same for the content,
\* updated_at refreshed also when no field is applied, and id, owner and
\* created_at as they were; the other posts are untouched.
C5_UpdateAppliesSuppliedFields ==
    [][ \A i \in PostIds :
           FindPost(i) # {} =>
              LET k == First(FindPost(i)) IN
              /\ \A h \in PostsHeaders, t \in EditTitles, c \in EditContents :
                    DevUpdatePost(h, i, t, c) /\ resp'.status = 200 =>
                       /\ Len(posts') = Len(posts)
                       /\ Edited(posts[k], posts'[k], t, c)
                       /\ \A j \in DOMAIN posts : j # k => posts'[j] = posts[j]
              /\ \A p \in Procs :
                    /\ procs[p].op = "updatePost"
                    /\ procs[p].id = i
                    /\ DbUpdatePostWrite(p)
                    => /\ resp'.status = 200
                       /\ Len(posts') = Len(posts)
                       /\ Edited(posts[k], posts'[k], procs[p].title, procs[p].content)
                       /\ \A j \in DOMAIN posts : j # k => posts'[j] = posts[j]
      ]_vars

\* an edit that applied no field was answered 200 and refreshed updated_at
C5_Witness ==
    /\ resp.op = "updatePost"
    /\ resp.status = 200
    /\ \E k \in DOMAIN posts :
          /\ posts[k].updated_at > posts[k].created_at
          /\ posts[k].title = Trim(GateBody.title[1])
          /\ posts[k].content = Trim(GateBody.content[1])

----------------------------------------------------------------------------
(* Tokens *)

Lifetime == ExpiresIn * TicksPerSec

HeldHeader == <<"Bearer", held[1].token>>

Accepted ==
    /\ resp'.op = "profile"
    /\ resp'.status = 200
    /\ resp'.user[1].id = held[1].token.payload.id
    /\ resp'.user[1].email = held[1].token.payload.email
    /\ \E k \in DOMAIN users :
          /\ users[k].id = held[1].token.payload.id
          /\ users[k].email = held[1].token.payload.email

Refused == resp'.op = "profile" /\ resp'.status = 403

AlteredRefused ==
    \A h \in TokenHeaders :
       /\ DevProfile(h) \/ DbProfile(h)
       /\ h # <<>>
       /\ h[2] \in Altered(held[1].token)
       => Refused

\* C3 as claimed: the token of a login or a registration is accepted at every
\* time less than a lifetime after the time it was issued and exposes the id
\* and email of its user; an altered token is refused, and so is a token older
\* than a lifetime.
C3_AcceptedForALifetime ==
    [][ held # <<>> =>
           /\ DevProfile(HeldHeader) \/ DbProfile(HeldHeader) =>
                 /\ now - held[1].at < Lifetime => Accepted
                 /\ now - held[1].at > Lifetime => Refused
           /\ AlteredRefused
      ]_vars

\* C3 as amended: the token is accepted at every time whose whole second is
\* less than a lifetime after the whole second it was issued in (its iat) and
\* exposes the id and email of its user; an altered token is refused, and so is
\* a token a lifetime old or older, counted in whole seconds from its iat.
C3_AcceptedUntilExp ==
    [][ held # <<>> =>
           /\ DevProfile(HeldHeader) \/ DbProfile(HeldHeader) =>
                 /\ held[1].token.payload.iat = Seconds(held[1].at)
                 /\ Seconds(now) - Seconds(held[1].at) < ExpiresIn => Accepted
                 /\ Seconds(now) - Seconds(held[1].at) >= ExpiresIn => Refused
                 /\ now - held[1].at > Lifetime => Refused
           /\ AlteredRefused
      ]_vars

\* a token issued in the middle of a second was presented in the last second
\* before its exp and accepted
C3_Witness ==
    /\ held # <<>>
    /\ held[1].at % TicksPerSec # 0
    /\ Seconds(now) = held[1].token.payload.exp - 1
    /\ resp.op = "profile"
    /\ resp.status = 200

----------------------------------------------------------------------------
(* The handlers of server-dev.js run alone: the status a request is answered
   with and the users and posts it leaves when no other request runs between
   its steps *)

Served(status, us, ps) == [status |-> status, users |-> us, posts |-> ps]

\* POST /api/auth/register past validation, email normalized and name trimmed
DevRegisterStored(email, password, name) ==
    IF FindByEmail(email) # {}
    THEN Served(409, users, posts)
    ELSE Served(201,
                Append(users, [id |-> nextUserId, email |-> email,
                               password |-> BcryptHash(password), name |-> name,
                               created_at |-> now]),
                posts)

DevRegisterSequential(email, password, name) ==
    IF RegisterErrors(email, password, name) # {}
    THEN Served(400, users, posts)
    ELSE DevRegisterStored(NormalizeEmail(email), password, Trim(name))

\* POST /api/auth/login past the search for the user
DevLoginFound(user, password) ==
    IF BcryptCompare(password, user.password)
    THEN Served(200, users, posts)
    ELSE Served(401, users, posts)

DevLoginSequential(email, password) ==
    LET found == FindByEmail(NormalizeEmail(email)) IN
    IF LoginErrors(email, password) # {} THEN Served(400, users, posts)
    ELSE IF found = {} THEN Served(401, users, posts)
    ELSE DevLoginFound(users[First(found)], password)

DevProfileSequential(header) ==
    LET auth == authenticateToken(header, now) IN
    IF ~auth.next THEN Served(auth.status, users, posts)
    ELSE IF FindById(auth.user[1].id) = {} THEN Served(404, users, posts)
    ELSE Served(200, users, posts)

DevListPostsSequential == Served(200, users, posts)

DevCreatePostSequential(header, title, content) ==
    LET auth == authenticateToken(header, now) IN
    IF ~auth.next THEN Served(auth.status, users, posts)
    ELSE IF PostErrors(title, content) # {} THEN Served(400, users, posts)
    ELSE Served(201, users,
                Append(posts, NewPost(nextPostId, title, content, auth.user[1].id)))

\* PUT /api/posts/:id past the ownership check, the fields trimmed
DevUpdatePostApplied(id, title, content) ==
    LET postIndex == First(FindPost(id)) IN
    Served(200, users,
           [posts EXCEPT ![postIndex] = Updated(posts[postIndex], title, content)])

DevUpdatePostSequential(header, id, title, content) ==
    LET auth == authenticateToken(header, now) IN
    IF ~auth.next THEN Served(auth.status, users, posts)
    ELSE IF FindPost(id) = {} THEN Served(404, users, posts)
    ELSE IF posts[First(FindPost(id))].user_id # auth.user[1].id
    THEN Served(403, users, posts)
    ELSE DevUpdatePostApplied(id, TrimField(title), TrimField(content))

\* DELETE /api/posts/:id past the ownership check
DevDeletePostApplied(id) ==
    Served(200, users, Splice(posts, First(FindPost(id))))

DevDeletePostSequential(header, id) ==
    LET auth == authenticateToken(header, now) IN
    IF ~auth.next THEN Served(auth.status, users, posts)
    ELSE IF FindPost(id) = {} THEN Served(404, users, posts)
    ELSE IF posts[First(FindPost(id))].user_id # auth.user[1].id
    THEN Served(403, users, posts)
    ELSE DevDeletePostApplied(id)

----------------------------------------------------------------------------
(* The sequential scenario: requests arrive one at a time, each when the one
   before it has been answered, within one clock tick, with the tokens the
   server has issued to its users; among the names and titles is one longer
   than a VARCHAR(255) column *)

Quiet == \A p \in Procs : procs[p] = Idle

LongValue == [i \in 1 .. VarcharMax + 1 |-> "n"]

SeqEmails == {EmailA, EmailB}
SeqNames == {<<>>, <<"n">>, LongValue}
SeqPasswords == {PwA, PwB}
SeqHeaders ==
    {<<>>} \cup {<<"Bearer", JwtSign(users[i].id, users[i].email, now)>> :
                    i \in DOMAIN users}
SeqTitles == {<<>>, <<<<"a">>>>, <<LongValue>>}
SeqContents == {<<<<"c">>>>}
SeqBodies == {[title |-> <<<<SP, "b">>>>, content |-> <<>>]}

NextSeq ==
    \/ Quiet /\ \E p \in Procs, e \in SeqEmails, n \in SeqNames :
          DevRegister(p, e, PwA, n)
    \/ \E p \in Procs : DevRegisterInsert(p)
    \/ Quiet /\ \E p \in Procs, e \in SeqEmails, n \in SeqNames :
          DbRegister(p, e, PwA, n)
    \/ \E p \in Procs : DbRegisterInsert(p)
    \/ Quiet /\ \E p \in Procs, w \in SeqPasswords : DevLogin(p, EmailA, w)
    \/ \E p \in Procs : DevLoginCompare(p)
    \/ Quiet /\ \E p \in Procs, w \in SeqPasswords : DbLogin(p, EmailA, w)
    \/ \E p \in Procs : DbLoginCompare(p)
    \/ Quiet /\ \E h \in SeqHeaders : DevProfile(h)
    \/ Quiet /\ \E h \in SeqHeaders : DbProfile(h)
    \/ Quiet /\ DevListPosts
    \/ Quiet /\ DbListPosts
    \/ Quiet /\ \E h \in SeqHeaders, t \in SeqTitles, c \in SeqContents :
          DevCreatePost(h, t, c)
    \/ Quiet /\ \E h \in SeqHeaders, t \in SeqTitles, c \in SeqContents :
          DbCreatePost(h, t, c)
    \/ Quiet /\ \E h \in SeqHeaders, i \in PostIds, b \in SeqBodies :
          DevUpdatePost(h, i, b.title, b.content)
    \/ Quiet /\ \E p \in Procs, h \in SeqHeaders, i \in PostIds, b \in SeqBodies :
          DbUpdatePost(p, h, i, b.title, b.content)
    \/ \E p \in Procs : DbUpdatePostWrite(p)
    \/ Quiet /\ \E h \in SeqHeaders, i \in PostIds : DevDeletePost(h, i)
    \/ Quiet /\ \E p \in Procs, h \in SeqHeaders, i \in PostIds : DbDeletePost(p, h, i)
    \/ \E p \in Procs : DbDeletePostWrite(p)

SpecSeq == Init /\ [][NextSeq]_vars

----------------------------------------------------------------------------
(* The two servers side by side *)

Store(list) == {list[i] : i \in DOMAIN list}

\* the step answers with the status, and leaves the set of users and the set
\* of posts, of the outcome
Same(outcome) ==
    /\ resp'.status = outcome.status
    /\ Store(users') = Store(outcome.users)
    /\ Store(posts') = Store(outcome.posts)

\* C11: the in-memory server and the database-backed server are functionally
\* identical: fed the same sequential requests from empty stores, each answers
\* every request with the status, and holds after it the users and the posts,
\* that the in-memory handler run alone on the same store answers and leaves.
C11_VariantsAnswerAlike ==
    [][ /\ \A p \in Procs, e \in SeqEmails, n \in SeqNames :
              (DevRegister(p, e, PwA, n) \/ DbRegister(p, e, PwA, n)) /\ procs'[p] = Idle
              => Same(DevRegisterSequential(e, PwA, n))
        /\ \A p \in Procs :
              DevRegisterInsert(p) \/ DbRegisterInsert(p)
              => Same(DevRegisterStored(procs[p].email, procs[p].password, procs[p].name))
        /\ \A p \in Procs, w \in SeqPasswords :
              (DevLogin(p, EmailA, w) \/ DbLogin(p, EmailA, w)) /\ procs'[p] = Idle
              => Same(DevLoginSequential(EmailA, w))
        /\ \A p \in Procs :
              DevLoginCompare(p) \/ DbLoginCompare(p)
              => Same(DevLoginFound(procs[p].user, procs[p].password))
        /\ \A h \in SeqHeaders :
              DevProfile(h) \/ DbProfile(h) => Same(DevProfileSequential(h))
        /\ DevListPosts \/ DbListPosts => Same(DevListPostsSequential)
        /\ \A h \in SeqHeaders, t \in SeqTitles, c \in SeqContents :
              DevCreatePost(h, t, c) \/ DbCreatePost(h, t, c)
              => Same(DevCreatePostSequential(h, t, c))
        /\ \A h \in SeqHeaders, i \in PostIds, b \in SeqBodies :
              \/ DevUpdatePost(h, i, b.title, b.content)
              \/ \E p \in Procs : DbUpdatePost(p, h, i, b.title, b.content) /\ procs'[p] = Idle
              => Same(DevUpdatePostSequential(h, i, b.title, b.content))
        /\ \A p \in Procs :
              DbUpdatePostWrite(p)
              => Same(DevUpdatePostApplied(procs[p].id, procs[p].title, procs[p].content))
        /\ \A h \in SeqHeaders, i \in PostIds :
              \/ DevDeletePost(h, i)
              \/ \E p \in Procs : DbDeletePost(p, h, i) /\ procs'[p] = Idle
              => Same(DevDeletePostSequential(h, i))
        /\ \A p \in Procs :
              DbDeletePostWrite(p) => Same(DevDeletePostApplied(procs[p].id))
      ]_vars

----------------------------------------------------------------------------
(* The read-modify-write on a post *)

\* C12: a write on a post is serialized with the other writes on it: an update
\* that answers 200 found the post in the store when it wrote and returns it,
\* and a deletion that answers 200 removed a post; no request finds the post at
\* its ownership check and misses it at its write.
C12_PostWritesAreSerialized ==
    [][ \A p \in Procs :
           /\ DbUpdatePostWrite(p) =>
                 /\ FindPost(procs[p].id) # {}
                 /\ resp'.status = 200 => resp'.post = <<procs[p].id>>
           /\ DbDeletePostWrite(p) /\ resp'.status = 200 =>
                 /\ FindPost(procs[p].id) # {}
                 /\ Len(posts') < Len(posts)
      ]_vars

====
